---- MODULE Spec2Model ----
(***************************************************************************)
(* Model of backend/controllers/aiController.js: the three request         *)
(* handlers parseInvoiceFromText, generateReminderEmail and                *)
(* getDashboardSummary, and the JSON recovery chain that two of them run   *)
(* on the text returned by the inference provider.                         *)
(*                                                                         *)
(* A text is a sequence of one-character strings.  A parsed JSON value is  *)
(* represented by its canonical text (insignificant whitespace removed, a  *)
(* repeated object key keeping its first position and its last value), so *)
(* two texts parse to the same value iff their canonical texts are equal.  *)
(***************************************************************************)
EXTENDS Integers, Sequences, FiniteSets, TLC

(* ------------------------------ state --------------------------------- *)

\* inv[i] is the state of the i-th handler invocation (its request, the
\* await it is suspended at, what it has received and sent); provider is
\* what the inference provider answers with.
VARIABLES inv, provider

vars == <<inv, provider>>

(* ------------------------------ bounds -------------------------------- *)

\* Every text over Alphabet of at most MaxLen characters is a possible
\* model response when a single request is in flight.
MaxLen == 4

\* Texts of at most ConcLen characters are the possible model responses
\* when two requests are in flight.
ConcLen == 1

(* ------------------------------- texts -------------------------------- *)

Alphabet == {"{", "}", "[", "]", "\"", ":", ",", "1", "a", " "}

Str(n) == [1..n -> Alphabet]

StringsUpTo(n) == UNION {Str(k) : k \in 0..n}

\* Longer responses of the shapes a chat model produces around a JSON
\* object: prose before and after, two objects, a broken member, literals.
Examples ==
    { <<"{", "\"", "a", "\"", ":", "1", "}">>,
      <<"a", " ", "{", "\"", "a", "\"", ":", "1", "}", " ", "a">>,
      <<"{", "\"", "a", "\"", ":", " ", "}">>,
      <<"a", " ", "{", "\"", "a", "\"", ":", "1", "}", " ", "a", " ",
        "{", "\"", "a", "\"", ":", "1", "}", " ", "a">>,
      <<"{", "}", "a", "{", "}">>,
      <<"[", "{", "\"", "a", "\"", ":", "1", "}", "]">>,
      <<"\"", "{", "}", "\"", " ">>,
      <<"n", "u", "l", "l">>,
      <<"t", "r", "u", "e">>,
      <<"f", "a", "l", "s", "e">>,
      <<"n", "u", "l", "l", "{", "}">>,
      <<"{", "\"", "a", "\"", ":", "1", ",", "\"", "a", "\"", ":",
        "[", "1", ",", "1", "1", "]", "}">>,
      <<"{", "\"", "a", "\"", ":", "1", ",", "}">>,
      <<"}", "a", "{">>,
      <<"{", " ", "\"", "}", "\"", " ", ":", " ", "{", "}", " ", "}", "a">> }

Texts == StringsUpTo(MaxLen) \cup Examples

ConcTexts == StringsUpTo(ConcLen) \cup Examples

(* ---------------------------- JSON.parse ------------------------------ *)

CharAt(s, i) == IF i >= 1 /\ i <= Len(s) THEN s[i] ELSE "EOF"

RECURSIVE SkipWs(_, _)
SkipWs(s, i) == IF CharAt(s, i) = " " THEN SkipWs(s, i + 1) ELSE i

Fail == [ok |-> FALSE, next |-> 0, val |-> <<>>]

Ok(n, v) == [ok |-> TRUE, next |-> n, val |-> v]

RECURSIVE ClosingQuote(_, _)
ClosingQuote(s, i) ==
    IF i > Len(s) THEN 0
    ELSE IF s[i] = "\"" THEN i
    ELSE ClosingQuote(s, i + 1)

\* s[i] is the opening quote.
ParseString(s, i) ==
    LET j == ClosingQuote(s, i + 1)
    IN  IF j = 0 THEN Fail ELSE Ok(j + 1, SubSeq(s, i, j))

RECURSIVE DigitsEnd(_, _)
DigitsEnd(s, i) == IF CharAt(s, i) = "1" THEN DigitsEnd(s, i + 1) ELSE i

\* s[i] is a digit.
ParseNumber(s, i) ==
    LET j == DigitsEnd(s, i) IN Ok(j, SubSeq(s, i, j - 1))

ParseLiteral(s, i, word) ==
    IF i + Len(word) - 1 <= Len(s) /\ SubSeq(s, i, i + Len(word) - 1) = word
    THEN Ok(i + Len(word), word)
    ELSE Fail

\* members: sequence of <<key, value>>; a repeated key keeps its place and
\* takes the new value.
PutMember(members, key, val) ==
    IF \E k \in 1..Len(members) : members[k][1] = key
    THEN [k \in 1..Len(members) |->
            IF members[k][1] = key THEN <<key, val>> ELSE members[k]]
    ELSE Append(members, <<key, val>>)

RECURSIVE JoinMembers(_)
JoinMembers(members) ==
    IF members = <<>> THEN <<>>
    ELSE LET m == Head(members)
             rest == Tail(members)
         IN  m[1] \o <<":">> \o m[2]
               \o (IF rest = <<>> THEN <<>> ELSE <<",">> \o JoinMembers(rest))

RECURSIVE ParseValue(_, _)
RECURSIVE ParseElements(_, _, _)
RECURSIVE ParseMembers(_, _, _)

\* i is the position of the next element; acc is the canonical text so far.
ParseElements(s, i, acc) ==
    LET v == ParseValue(s, i)
    IN  IF ~v.ok THEN Fail
        ELSE LET k == SkipWs(s, v.next)
             IN  IF CharAt(s, k) = ","
                   THEN ParseElements(s, k + 1, acc \o v.val \o <<",">>)
                 ELSE IF CharAt(s, k) = "]"
                   THEN Ok(k + 1, acc \o v.val \o <<"]">>)
                 ELSE Fail

\* s[i] is the opening bracket.
ParseArray(s, i) ==
    LET j == SkipWs(s, i + 1)
    IN  IF CharAt(s, j) = "]" THEN Ok(j + 1, <<"[", "]">>)
        ELSE ParseElements(s, j, <<"[">>)

\* i is the position where the next key may start.
ParseMembers(s, i, members) ==
    LET j == SkipWs(s, i)
    IN  IF CharAt(s, j) # "\"" THEN Fail
        ELSE LET key == ParseString(s, j)
             IN  IF ~key.ok THEN Fail
                 ELSE LET c == SkipWs(s, key.next)
                      IN  IF CharAt(s, c) # ":" THEN Fail
                          ELSE LET v == ParseValue(s, c + 1)
                               IN  IF ~v.ok THEN Fail
                                   ELSE LET k == SkipWs(s, v.next)
                                            ms == PutMember(members, key.val, v.val)
                                        IN  IF CharAt(s, k) = ","
                                              THEN ParseMembers(s, k + 1, ms)
                                            ELSE IF CharAt(s, k) = "}"
                                              THEN Ok(k + 1, <<"{">> \o JoinMembers(ms) \o <<"}">>)
                                            ELSE Fail

\* s[i] is the opening brace.
ParseObject(s, i) ==
    LET j == SkipWs(s, i + 1)
    IN  IF CharAt(s, j) = "}" THEN Ok(j + 1, <<"{", "}">>)
        ELSE ParseMembers(s, j, <<>>)

ParseValue(s, i) ==
    LET j == SkipWs(s, i)
        c == CharAt(s, j)
    IN  IF c = "{" THEN ParseObject(s, j)
        ELSE IF c = "[" THEN ParseArray(s, j)
        ELSE IF c = "\"" THEN ParseString(s, j)
        ELSE IF c = "1" THEN ParseNumber(s, j)
        ELSE IF c = "n" THEN ParseLiteral(s, j, <<"n", "u", "l", "l">>)
        ELSE IF c = "t" THEN ParseLiteral(s, j, <<"t", "r", "u", "e">>)
        ELSE IF c = "f" THEN ParseLiteral(s, j, <<"f", "a", "l", "s", "e">>)
        ELSE Fail

\* JSON.parse(s): [ok |-> FALSE] stands for the SyntaxError it throws.
JSONparse(s) ==
    LET v == ParseValue(s, 1)
    IN  IF v.ok /\ SkipWs(s, v.next) = Len(s) + 1
        THEN [ok |-> TRUE, val |-> v.val]
        ELSE [ok |-> FALSE, val |-> <<>>]

(* ----------------------- String.prototype.match ------------------------ *)

Max(S) == CHOOSE x \in S : \A y \in S : y <= x

Min(S) == CHOOSE x \in S : \A y \in S : x <= y

NoMatch == [found |-> FALSE, index |-> 0, text |-> <<>>]

\* Positions at which /{[\s\S]*}/ can match: a "{" with some "}" after it.
MatchStarts(s) ==
    {i \in 1..Len(s) : s[i] = "{" /\ \E j \in (i + 1)..Len(s) : s[j] = "}"}

\* Mutant: a lazy quantifier, /{[\s\S]*?}/, stops at the first "}".
RegexMatch_lazy(s) ==
    IF MatchStarts(s) = {} THEN NoMatch
    ELSE LET i == Min(MatchStarts(s))
             j == Min({k \in (i + 1)..Len(s) : s[k] = "}"})
         IN  [found |-> TRUE, index |-> i, text |-> SubSeq(s, i, j)]

\* Mutant: one module-level regex object with the g flag, used through
\* exec, resumes after the end of the match another invocation left behind.
RegexMatch_sharedLastIndex(s) ==
    LET ends == {inv[j].extraction.match.index + Len(inv[j].extraction.match.text) - 1 :
                    j \in {k \in DOMAIN inv : inv[k].extraction.match.found}}
        lastIndex == IF ends = {} THEN 0 ELSE Max(ends)
        starts == {i \in MatchStarts(s) : i > lastIndex}
    IN  IF starts = {} THEN NoMatch
        ELSE LET i == Min(starts)
                 j == Max({k \in (i + 1)..Len(s) : s[k] = "}"})
             IN  [found |-> TRUE, index |-> i, text |-> SubSeq(s, i, j)]

\* responseText.match(/{[\s\S]*}/): the leftmost position that matches,
\* and from it the longest match ([\s\S]* is greedy).  NoMatch is null.
RegexMatch(s) ==
    IF MatchStarts(s) = {} THEN NoMatch
    ELSE LET i == Min(MatchStarts(s))
             j == Max({k \in (i + 1)..Len(s) : s[k] = "}"})
         IN  [found |-> TRUE, index |-> i, text |-> SubSeq(s, i, j)]

(* ------------------------- response bodies ---------------------------- *)

Undefined == [kind |-> "undefined", message |-> "", details |-> "", json |-> <<>>]

\* { message: m }
MessageBody(m) == [kind |-> "message", message |-> m, details |-> "", json |-> <<>>]

\* { message: m, details: error.message }
ErrorBody(m, d) == [kind |-> "error", message |-> m, details |-> d, json |-> <<>>]

\* a value returned by JSON.parse
Parsed(v) == [kind |-> "parsed", message |-> "", details |-> "", json |-> v]

\* { insights: [m] }
Insights(m) == [kind |-> "insights", message |-> m, details |-> "", json |-> <<>>]

\* { reminderText }
ReminderBody(txt) == [kind |-> "reminderText", message |-> "", details |-> "", json |-> txt]

NoJsonMessage == "No valid JSON found in AI response."

\* message of the SyntaxError thrown by JSON.parse
SyntaxErrorMessage == "SyntaxError"

TypeErrorMessage == "TypeError"

(* ------------------------ the extraction chain ------------------------ *)

NotExtracted ==
    [outcome |-> "None", parsedData |-> Undefined, error |-> "",
     matchTried |-> FALSE, match |-> NoMatch]

\* Mutant: the brace span is tried before the whole text.
parseInvoiceExtract_spanFirst(responseText) ==
    LET match == RegexMatch(responseText)
        sub == JSONparse(match.text)
        direct == JSONparse(responseText)
    IN  IF match.found /\ sub.ok
        THEN [outcome |-> "Success", parsedData |-> Parsed(sub.val),
              error |-> "", matchTried |-> TRUE, match |-> match]
        ELSE IF direct.ok
        THEN [outcome |-> "Success", parsedData |-> Parsed(direct.val),
              error |-> "", matchTried |-> TRUE, match |-> match]
        ELSE IF match.found
        THEN [outcome |-> "MalformedJson", parsedData |-> Undefined,
              error |-> SyntaxErrorMessage, matchTried |-> TRUE, match |-> match]
        ELSE [outcome |-> "NoJsonFound", parsedData |-> Undefined,
              error |-> NoJsonMessage, matchTried |-> TRUE, match |-> match]

\* Mutant: the `if (!match) throw` guard is missing, so match[0] on null
\* raises a TypeError that is reported like a parse error of the span.
parseInvoiceExtract_noGuard(responseText) ==
    LET direct == JSONparse(responseText)
        match == RegexMatch(responseText)
        sub == JSONparse(match.text)
    IN  IF direct.ok
        THEN [outcome |-> "Success", parsedData |-> Parsed(direct.val),
              error |-> "", matchTried |-> FALSE, match |-> NoMatch]
        ELSE IF match.found /\ sub.ok
        THEN [outcome |-> "Success", parsedData |-> Parsed(sub.val),
              error |-> "", matchTried |-> TRUE, match |-> match]
        ELSE [outcome |-> "MalformedJson", parsedData |-> Undefined,
              error |-> IF match.found THEN SyntaxErrorMessage ELSE TypeErrorMessage,
              matchTried |-> TRUE, match |-> match]

\* parseInvoiceFromText, lines 55-62.  error is the message of the error
\* thrown out of the inner try/catch ("" when none is thrown).
parseInvoiceExtract(responseText) ==
    LET direct == JSONparse(responseText)
    IN  IF direct.ok
        THEN [outcome |-> "Success", parsedData |-> Parsed(direct.val),
              error |-> "", matchTried |-> FALSE, match |-> NoMatch]
        ELSE LET match == RegexMatch(responseText)
             IN  IF ~match.found
                 THEN [outcome |-> "NoJsonFound", parsedData |-> Undefined,
                       error |-> NoJsonMessage, matchTried |-> TRUE, match |-> match]
                 ELSE LET sub == JSONparse(match.text)
                      IN  IF sub.ok
                          THEN [outcome |-> "Success", parsedData |-> Parsed(sub.val),
                                error |-> "", matchTried |-> TRUE, match |-> match]
                          ELSE [outcome |-> "MalformedJson", parsedData |-> Undefined,
                                error |-> SyntaxErrorMessage, matchTried |-> TRUE,
                                match |-> match]

\* Mutant: when the span does not parse, the first inner object is tried.
dashboardExtract_innerObject(responseText) ==
    LET direct == JSONparse(responseText)
        match == RegexMatch(responseText)
        sub == JSONparse(match.text)
        inner == JSONparse(RegexMatch_lazy(responseText).text)
    IN  IF direct.ok
        THEN [outcome |-> "Success", parsedData |-> Parsed(direct.val),
              error |-> "", matchTried |-> FALSE, match |-> NoMatch]
        ELSE IF match.found /\ sub.ok
        THEN [outcome |-> "Success", parsedData |-> Parsed(sub.val),
              error |-> "", matchTried |-> TRUE, match |-> match]
        ELSE IF match.found /\ inner.ok
        THEN [outcome |-> "Success", parsedData |-> Parsed(inner.val),
              error |-> "", matchTried |-> TRUE, match |-> match]
        ELSE IF match.found
        THEN [outcome |-> "MalformedJson",
              parsedData |-> Insights("AI returned invalid JSON format. Please retry."),
              error |-> "", matchTried |-> TRUE, match |-> match]
        ELSE [outcome |-> "NoJsonFound",
              parsedData |-> Insights("Unable to generate insights from data."),
              error |-> "", matchTried |-> TRUE, match |-> match]

\* Mutant: the two placeholder branches are the wrong way round.
dashboardExtract_swapped(responseText) ==
    LET direct == JSONparse(responseText)
        match == RegexMatch(responseText)
        sub == JSONparse(match.text)
    IN  IF direct.ok
        THEN [outcome |-> "Success", parsedData |-> Parsed(direct.val),
              error |-> "", matchTried |-> FALSE, match |-> NoMatch]
        ELSE IF match.found /\ sub.ok
        THEN [outcome |-> "Success", parsedData |-> Parsed(sub.val),
              error |-> "", matchTried |-> TRUE, match |-> match]
        ELSE IF match.found
        THEN [outcome |-> "NoJsonFound",
              parsedData |-> Insights("Unable to generate insights from data."),
              error |-> "", matchTried |-> TRUE, match |-> match]
        ELSE [outcome |-> "MalformedJson",
              parsedData |-> Insights("AI returned invalid JSON format. Please retry."),
              error |-> "", matchTried |-> TRUE, match |-> match]

\* getDashboardSummary, lines 184-200.  Nothing is thrown out of the chain.
dashboardExtract(responseText) ==
    LET direct == JSONparse(responseText)
    IN  IF direct.ok
        THEN [outcome |-> "Success", parsedData |-> Parsed(direct.val),
              error |-> "", matchTried |-> FALSE, match |-> NoMatch]
        ELSE LET match == RegexMatch(responseText)
             IN  IF match.found
                 THEN LET sub == JSONparse(match.text)
                      IN  IF sub.ok
                          THEN [outcome |-> "Success", parsedData |-> Parsed(sub.val),
                                error |-> "", matchTried |-> TRUE, match |-> match]
                          ELSE [outcome |-> "MalformedJson",
                                parsedData |-> Insights("AI returned invalid JSON format. Please retry."),
                                error |-> "", matchTried |-> TRUE, match |-> match]
                 ELSE [outcome |-> "NoJsonFound",
                       parsedData |-> Insights("Unable to generate insights from data."),
                       error |-> "", matchTried |-> TRUE, match |-> match]

(* ----------------------------- requests ------------------------------ *)

Slots == {1, 2}

Handlers == {"parseInvoiceFromText", "generateReminderEmail", "getDashboardSummary"}

\* req.body: "none" is a request without a body object, "empty" a body
\* whose text / invoiceId is missing or falsy, "field" a body that has it.
Bodies == {"none", "empty", "field"}

NewRequest(h, b) ==
    [handler |-> h, body |-> b, pc |-> "start", lookup |-> "", fault |-> "",
     fetchCalls |-> 0, responses |-> <<>>, responseText |-> <<>>,
     extraction |-> NotExtracted]

Idle == [NewRequest("parseInvoiceFromText", "none") EXCEPT !.pc = "idle"]

NewRequests == {NewRequest(h, b) : h \in Handlers, b \in Bodies}

\* What `await response.json()` produces: a rejection, null, or an object
\* whose choices[0].message.content is absent or is a text.
JsonResults(texts) ==
    {[kind |-> "reject", content |-> <<>>], [kind |-> "null", content |-> <<>>],
     [kind |-> "nocontent", content |-> <<>>]}
      \cup {[kind |-> "content", content |-> c] : c \in texts}

ProviderTexts == IF provider.mode = "any" THEN Texts ELSE {provider.text}

(* ----------------------------- helpers -------------------------------- *)

\* res.status(status).json(body)
Respond(s, status, body) ==
    [s EXCEPT !.responses = Append(@, [status |-> status, body |-> body])]

\* return from the handler
Return(s) == [s EXCEPT !.pc = "done"]

\* an error thrown outside any try block rejects the handler's promise
Reject(s) == [s EXCEPT !.pc = "rejected"]

\* await fetch(...)
CallFetch(s) == [s EXCEPT !.fetchCalls = @ + 1, !.pc = "fetch"]

\* data.choices?.[0]?.message?.content || ''
ContentOrEmpty(data) == IF data.kind = "content" THEN data.content ELSE <<>>

(* ----------------------- parseInvoiceFromText ------------------------- *)

\* Mutant: no outer catch, the error rejects the handler's promise.
parseInvoiceCatch_missing(s, details) == Reject(s)

\* lines 65-68
parseInvoiceCatch(s, details) ==
    Return(Respond(s, 500, ErrorBody("Failed to parse invoice data from text.", details)))

\* Mutant: the 400 branch does not return.
parseInvoiceStart_noReturn(s) ==
    IF s.body = "none" THEN Reject(s)
    ELSE IF s.body = "empty" THEN CallFetch(Respond(s, 400, MessageBody("Text is required")))
    ELSE CallFetch(s)

\* lines 8-50
parseInvoiceStart(s) ==
    IF s.body = "none" THEN Reject(s)
    ELSE IF s.body = "empty" THEN Return(Respond(s, 400, MessageBody("Text is required")))
    ELSE CallFetch(s)

\* lines 38-52: fetch settles
parseInvoiceFetched(s, ok) ==
    IF ok THEN [s EXCEPT !.pc = "json"]
    ELSE parseInvoiceCatch([s EXCEPT !.fault = "fetch"], "fetch failed")

\* lines 52-68: response.json() settles
parseInvoiceResume(s, data) ==
    IF data.kind = "reject"
      THEN parseInvoiceCatch([s EXCEPT !.fault = "json"], SyntaxErrorMessage)
    ELSE IF data.kind = "null"
      THEN parseInvoiceCatch([s EXCEPT !.fault = "data"], TypeErrorMessage)
    ELSE LET responseText == ContentOrEmpty(data)
             x == parseInvoiceExtract(responseText)
             s1 == [s EXCEPT !.responseText = responseText, !.extraction = x]
         IN  IF x.error # "" THEN parseInvoiceCatch(s1, x.error)
             ELSE Return(Respond(s1, 200, x.parsedData))

(* ----------------------- generateReminderEmail ------------------------ *)

\* lines 115-118
reminderCatch(s, details) ==
    Return(Respond(s, 500, ErrorBody("Failed to generate reminder email.", details)))

\* lines 73-80
reminderStart(s) ==
    IF s.body = "none" THEN Reject(s)
    ELSE IF s.body = "empty" THEN Return(Respond(s, 400, MessageBody("Invoice ID is required")))
    ELSE [s EXCEPT !.pc = "findById"]

\* lines 80-109: Invoice.findById settles
reminderFound(s, found) ==
    IF found = "error" THEN reminderCatch([s EXCEPT !.fault = "lookup"], "lookup failed")
    ELSE IF found = "none"
      THEN Return(Respond([s EXCEPT !.lookup = "none"], 404, MessageBody("Invoice not found")))
    ELSE CallFetch([s EXCEPT !.lookup = "found"])

\* lines 97-111
reminderFetched(s, ok) ==
    IF ok THEN [s EXCEPT !.pc = "json"]
    ELSE reminderCatch([s EXCEPT !.fault = "fetch"], "fetch failed")

\* lines 111-118
reminderResume(s, data) ==
    IF data.kind = "reject"
      THEN reminderCatch([s EXCEPT !.fault = "json"], SyntaxErrorMessage)
    ELSE IF data.kind = "null"
      THEN reminderCatch([s EXCEPT !.fault = "data"], TypeErrorMessage)
    ELSE LET reminderText == ContentOrEmpty(data)
         IN  Return(Respond([s EXCEPT !.responseText = reminderText], 200,
                            ReminderBody(reminderText)))

(* ------------------------ getDashboardSummary ------------------------- *)

\* lines 203-209
dashboardCatch(s, details) ==
    Return(Respond(s, 500, ErrorBody("Failed to generate dashboard insights.", details)))

\* lines 123-124
dashboardStart(s) == [s EXCEPT !.pc = "find"]

\* Mutant: no short-circuit on an empty invoice list.
dashboardFound_noShortCircuit(s, found) ==
    IF found = "error" THEN dashboardCatch([s EXCEPT !.fault = "lookup"], "lookup failed")
    ELSE CallFetch([s EXCEPT !.lookup = found])

\* lines 124-177: Invoice.find settles
dashboardFound(s, found) ==
    IF found = "error" THEN dashboardCatch([s EXCEPT !.fault = "lookup"], "lookup failed")
    ELSE IF found = "none"
      THEN Return(Respond([s EXCEPT !.lookup = "none"], 200,
                          Insights("No invoice data available to generate insights.")))
    ELSE CallFetch([s EXCEPT !.lookup = "found"])

\* lines 165-179
dashboardFetched(s, ok) ==
    IF ok THEN [s EXCEPT !.pc = "json"]
    ELSE dashboardCatch([s EXCEPT !.fault = "fetch"], "fetch failed")

\* Mutant: an extraction failure is answered with the catch block's 500.
dashboardResume_failureIs500(s, data) ==
    IF data.kind = "reject"
      THEN dashboardCatch([s EXCEPT !.fault = "json"], SyntaxErrorMessage)
    ELSE IF data.kind = "null"
      THEN dashboardCatch([s EXCEPT !.fault = "data"], TypeErrorMessage)
    ELSE LET responseText == ContentOrEmpty(data)
             x == dashboardExtract(responseText)
             s1 == [s EXCEPT !.responseText = responseText, !.extraction = x]
         IN  IF x.outcome # "Success" THEN dashboardCatch(s1, x.parsedData.message)
             ELSE Return(Respond(s1, 200, x.parsedData))

\* lines 179-209
dashboardResume(s, data) ==
    IF data.kind = "reject"
      THEN dashboardCatch([s EXCEPT !.fault = "json"], SyntaxErrorMessage)
    ELSE IF data.kind = "null"
      THEN dashboardCatch([s EXCEPT !.fault = "data"], TypeErrorMessage)
    ELSE LET responseText == ContentOrEmpty(data)
             x == dashboardExtract(responseText)
             s1 == [s EXCEPT !.responseText = responseText, !.extraction = x]
         IN  Return(Respond(s1, 200, x.parsedData))

(* ------------------------------ actions ------------------------------- *)

At(i, h, pc) == inv[i].handler = h /\ inv[i].pc = pc

Step(i, s) == inv' = [inv EXCEPT ![i] = s] /\ UNCHANGED provider

ParseInvoiceStart(i) ==
    /\ At(i, "parseInvoiceFromText", "start")
    /\ Step(i, parseInvoiceStart(inv[i]))

ParseInvoiceFetched(i) ==
    /\ At(i, "parseInvoiceFromText", "fetch")
    /\ \E ok \in BOOLEAN : Step(i, parseInvoiceFetched(inv[i], ok))

ParseInvoiceResume(i) ==
    /\ At(i, "parseInvoiceFromText", "json")
    /\ \E data \in JsonResults(ProviderTexts) : Step(i, parseInvoiceResume(inv[i], data))

ReminderStart(i) ==
    /\ At(i, "generateReminderEmail", "start")
    /\ Step(i, reminderStart(inv[i]))

ReminderFound(i) ==
    /\ At(i, "generateReminderEmail", "findById")
    /\ \E found \in {"error", "none", "found"} : Step(i, reminderFound(inv[i], found))

ReminderFetched(i) ==
    /\ At(i, "generateReminderEmail", "fetch")
    /\ \E ok \in BOOLEAN : Step(i, reminderFetched(inv[i], ok))

ReminderResume(i) ==
    /\ At(i, "generateReminderEmail", "json")
    /\ \E data \in JsonResults(ProviderTexts) : Step(i, reminderResume(inv[i], data))

DashboardStart(i) ==
    /\ At(i, "getDashboardSummary", "start")
    /\ Step(i, dashboardStart(inv[i]))

DashboardFound(i) ==
    /\ At(i, "getDashboardSummary", "find")
    /\ \E found \in {"error", "none", "found"} : Step(i, dashboardFound(inv[i], found))

DashboardFetched(i) ==
    /\ At(i, "getDashboardSummary", "fetch")
    /\ \E ok \in BOOLEAN : Step(i, dashboardFetched(inv[i], ok))

DashboardResume(i) ==
    /\ At(i, "getDashboardSummary", "json")
    /\ \E data \in JsonResults(ProviderTexts) : Step(i, dashboardResume(inv[i], data))

\* One request in flight; the provider may answer with any text.
Init ==
    /\ provider = [mode |-> "any", text |-> <<>>]
    /\ \E r \in NewRequests : inv = [i \in Slots |-> IF i = 1 THEN r ELSE Idle]

\* Two requests in flight; the provider answers both with the same text.
InitConc ==
    /\ \E c \in ConcTexts : provider = [mode |-> "fixed", text |-> c]
    /\ inv \in [Slots -> NewRequests]

Next ==
    \E i \in Slots :
        \/ ParseInvoiceStart(i)
        \/ ParseInvoiceFetched(i)
        \/ ParseInvoiceResume(i)
        \/ ReminderStart(i)
        \/ ReminderFound(i)
        \/ ReminderFetched(i)
        \/ ReminderResume(i)
        \/ DashboardStart(i)
        \/ DashboardFound(i)
        \/ DashboardFetched(i)
        \/ DashboardResume(i)

Spec == Init /\ [][Next]_vars

SpecConc == InitConc /\ [][Next]_vars
(* ------------------------------ claims -------------------------------- *)

Extracted(i) == inv[i].extraction.outcome # "None"

Text(i) == inv[i].responseText

RECURSIVE FirstIndexOf(_, _, _)
FirstIndexOf(s, c, i) ==
    IF i > Len(s) THEN 0 ELSE IF s[i] = c THEN i ELSE FirstIndexOf(s, c, i + 1)

RECURSIVE LastIndexOf(_, _, _)
LastIndexOf(s, c, i) ==
    IF i < 1 THEN 0 ELSE IF s[i] = c THEN i ELSE LastIndexOf(s, c, i - 1)

\* The text has a "{" and, after it, a "}".
HasSpan(s) ==
    /\ FirstIndexOf(s, "{", 1) # 0
    /\ FirstIndexOf(s, "{", 1) < LastIndexOf(s, "}", Len(s))

\* The text from the first "{" to the last "}".
Span(s) == SubSeq(s, FirstIndexOf(s, "{", 1), LastIndexOf(s, "}", Len(s)))

Sent(i, status, body) == inv[i].responses = <<[status |-> status, body |-> body]>>

\* C1: a response text that is valid JSON as a whole yields Success with
\* the value of the whole text, in both handlers; the brace span is not
\* tried and its value is not what is returned.
C1_WholeTextWins ==
    \A i \in Slots :
        (Extracted(i) /\ JSONparse(Text(i)).ok) =>
            /\ inv[i].extraction.outcome = "Success"
            /\ inv[i].extraction.parsedData = Parsed(JSONparse(Text(i)).val)
            /\ ~inv[i].extraction.matchTried
            /\ Sent(i, 200, Parsed(JSONparse(Text(i)).val))

\* A whole-text value was returned for a text whose brace span parses to a
\* different value.
C1_Witness ==
    \E i \in Slots :
        /\ Extracted(i)
        /\ JSONparse(Text(i)).ok
        /\ HasSpan(Text(i))
        /\ JSONparse(Span(Text(i))).ok
        /\ JSONparse(Span(Text(i))).val # JSONparse(Text(i)).val
        /\ inv[i].extraction.outcome = "Success"

\* C2: when the direct parse fails, the one fallback candidate is the text
\* from the first "{" to the last "}"; the outcome is Success(v) exactly
\* when that substring parses to v.
C2_OnlyFirstToLastSpan ==
    \A i \in Slots :
        (Extracted(i) /\ ~JSONparse(Text(i)).ok) =>
            /\ inv[i].extraction.matchTried
            /\ inv[i].extraction.match.found <=> HasSpan(Text(i))
            /\ inv[i].extraction.match.found =>
                 /\ inv[i].extraction.match.text = Span(Text(i))
                 /\ inv[i].extraction.match.index = FirstIndexOf(Text(i), "{", 1)
            /\ inv[i].extraction.outcome = "Success"
                 <=> (HasSpan(Text(i)) /\ JSONparse(Span(Text(i))).ok)
            /\ inv[i].extraction.outcome = "Success" =>
                 inv[i].extraction.parsedData = Parsed(JSONparse(Span(Text(i))).val)

\* An object was recovered from a text with characters before and after it
\* and more than one "}".
C2_Witness ==
    \E i \in Slots :
        /\ Extracted(i)
        /\ ~JSONparse(Text(i)).ok
        /\ inv[i].extraction.outcome = "Success"
        /\ inv[i].extraction.match.index > 1
        /\ Len(inv[i].extraction.match.text) < Len(Text(i))
        /\ Cardinality({k \in 1..Len(Text(i)) : Text(i)[k] = "}"}) > 1

\* C3: a text that fails the direct parse and has no "{" followed by a "}"
\* (the empty text included) yields NoJsonFound, never Success.
C3_NoSpanIsNoJsonFound ==
    \A i \in Slots :
        (/\ Extracted(i)
         /\ ~JSONparse(Text(i)).ok
         /\ ~\E p, q \in 1..Len(Text(i)) :
                p < q /\ Text(i)[p] = "{" /\ Text(i)[q] = "}") =>
            /\ inv[i].extraction.outcome = "NoJsonFound"
            /\ inv[i].extraction.parsedData.kind # "parsed"
            /\ ~inv[i].extraction.match.found

\* NoJsonFound was reached for the empty text, and for a text whose only
\* "}" precedes its "{".
C3_Witness ==
    \E i \in Slots :
        /\ Extracted(i)
        /\ inv[i].extraction.outcome = "NoJsonFound"
        /\ \/ Text(i) = <<>>
           \/ \E p, q \in 1..Len(Text(i)) :
                p < q /\ Text(i)[p] = "}" /\ Text(i)[q] = "{"

\* What each handler holds after a NoJsonFound extraction.
NoJsonFoundResult(h) ==
    IF h = "parseInvoiceFromText"
    THEN [parsedData |-> Undefined, error |-> NoJsonMessage]
    ELSE [parsedData |-> Insights("Unable to generate insights from data."), error |-> ""]

\* C4: a text that fails the direct parse and whose first-"{"-to-last-"}"
\* span does not parse yields MalformedJson, which differs from what the
\* handler holds for NoJsonFound, and never a parsed value.
C4_BadSpanIsMalformedJson ==
    \A i \in Slots :
        (/\ Extracted(i)
         /\ ~JSONparse(Text(i)).ok
         /\ HasSpan(Text(i))
         /\ ~JSONparse(Span(Text(i))).ok) =>
            /\ inv[i].extraction.outcome = "MalformedJson"
            /\ inv[i].extraction.parsedData.kind # "parsed"
            /\ [parsedData |-> inv[i].extraction.parsedData,
                error |-> inv[i].extraction.error] # NoJsonFoundResult(inv[i].handler)
            /\ \A r \in 1..Len(inv[i].responses) :
                 inv[i].responses[r].body.kind # "parsed"

\* MalformedJson was reached for a text holding two well-formed objects
\* with prose between them.
C4_Witness ==
    \E i \in Slots :
        /\ Extracted(i)
        /\ inv[i].extraction.outcome = "MalformedJson"
        /\ \E a, b, c, d \in 1..Len(Text(i)) :
             /\ a < b /\ b < c /\ c < d
             /\ JSONparse(SubSeq(Text(i), a, b)).ok /\ Text(i)[a] = "{"
             /\ JSONparse(SubSeq(Text(i), c, d)).ok /\ Text(i)[c] = "{"

ExtractingHandlers == {"parseInvoiceFromText", "getDashboardSummary"}

\* C5: in both extracting handlers the extraction ends in exactly one of
\* Success, NoJsonFound or MalformedJson and the handler returns; an error
\* thrown by either parse attempt is caught and never rejects the promise.
C5_ExtractionTotal ==
    \A i \in Slots :
        inv[i].handler \in ExtractingHandlers =>
            /\ (inv[i].pc = "rejected") =>
                 (inv[i].body = "none" /\ inv[i].fault = "" /\ ~Extracted(i))
            /\ (inv[i].pc = "done" /\ inv[i].fault = "" /\ inv[i].fetchCalls = 1) =>
                 Extracted(i)
            /\ Extracted(i) =>
                 /\ inv[i].pc = "done"
                 /\ inv[i].extraction.outcome \in {"Success", "NoJsonFound", "MalformedJson"}
                 /\ (inv[i].extraction.outcome = "Success")
                      <=> (inv[i].extraction.parsedData.kind = "parsed")
                 /\ (inv[i].extraction.error # "") =>
                      (inv[i].extraction.outcome # "Success"
                        /\ Len(inv[i].responses) = 1
                        /\ inv[i].responses[1].body.details = inv[i].extraction.error)

\* parseInvoiceFromText caught the error of the span parse, after the
\* direct parse had failed too.
C5_Witness ==
    \E i \in Slots :
        /\ inv[i].handler = "parseInvoiceFromText"
        /\ inv[i].extraction.error = SyntaxErrorMessage
        /\ inv[i].extraction.match.found
        /\ inv[i].pc = "done"

SameTextSameOutcome ==
    \A i, j \in Slots :
        (Extracted(i) /\ Extracted(j) /\ Text(i) = Text(j)) =>
            /\ inv[i].extraction.outcome = inv[j].extraction.outcome
            /\ inv[i].extraction.match = inv[j].extraction.match
            /\ (inv[i].extraction.outcome = "Success") =>
                 inv[i].extraction.parsedData = inv[j].extraction.parsedData
            /\ (inv[i].handler = inv[j].handler) =>
                 (inv[i].extraction = inv[j].extraction /\ inv[i].responses = inv[j].responses)

\* A step of one invocation leaves every other invocation as it was, and
\* an extraction result, once produced, is not changed.
Independent ==
    \A i \in Slots :
        /\ (inv[i]' # inv[i]) => (\A j \in Slots \ {i} : inv[j]' = inv[j])
        /\ Extracted(i) => (inv[i]' = inv[i])

C7_AtMostOneFetch ==
    \A i \in Slots :
        /\ inv[i].fetchCalls <= 1
        /\ (inv[i].handler = "parseInvoiceFromText" /\ inv[i].body = "empty") =>
             inv[i].fetchCalls = 0
        /\ (inv[i].handler = "generateReminderEmail" /\ inv[i].body = "empty") =>
             inv[i].fetchCalls = 0
        /\ (inv[i].lookup = "none") => inv[i].fetchCalls = 0
        /\ \A r \in 1..Len(inv[i].responses) :
             (\/ inv[i].responses[r].status \in {400, 404}
              \/ inv[i].responses[r].body
                   = Insights("No invoice data available to generate insights."))
                => inv[i].fetchCalls = 0

\* getDashboardSummary short-circuited on an empty invoice list.
C7_Witness ==
    \E i \in Slots :
        /\ inv[i].handler = "getDashboardSummary"
        /\ inv[i].lookup = "none"
        /\ inv[i].pc = "done"
        /\ Sent(i, 200, Insights("No invoice data available to generate insights."))

C9_ExactlyOneResponse ==
    \A i \in Slots :
        inv[i].body # "none" =>
            /\ Len(inv[i].responses) <= 1
            /\ (inv[i].pc = "done") <=> (Len(inv[i].responses) = 1)
            /\ inv[i].pc # "rejected"

\* A handler answered 400 and returned.
C9_Witness ==
    \E i \in Slots :
        /\ inv[i].body = "empty"
        /\ inv[i].pc = "done"
        /\ Len(inv[i].responses) = 1
        /\ inv[i].responses[1].status = 400

\* C10: the chain of parseInvoiceFromText and the chain of
\* getDashboardSummary classify every received text alike, try the same
\* span and, on Success, produce the same value.
C10_SameExtractor ==
    \A i \in Slots :
        Extracted(i) =>
            LET a == parseInvoiceExtract(Text(i))
                b == dashboardExtract(Text(i))
            IN  /\ a.outcome = b.outcome
                /\ a.matchTried = b.matchTried
                /\ a.match = b.match
                /\ (a.outcome = "Success") => (a.parsedData = b.parsedData)
                /\ inv[i].extraction \in {a, b}

\* A text with a brace span that does not parse was received.
C10_Witness ==
    \E i \in Slots :
        /\ Extracted(i)
        /\ inv[i].handler = "getDashboardSummary"
        /\ parseInvoiceExtract(Text(i)).outcome = "MalformedJson"
        /\ parseInvoiceExtract(Text(i)).parsedData # dashboardExtract(Text(i)).parsedData
====
